---- MODULE Spec2Model ----
(***************************************************************************)
(* The three scripts of PythonBridge/PyScript:                            *)
(*   api.py               a FastAPI application with two GET handlers     *)
(*   basic_operations.py  a module of three functions and the global PI   *)
(*   train_iris_model.py  a script: load iris, fit GaussianNB, dump       *)
(* The scripts share nothing, so each has its own specification over the  *)
(* same variables: SpecApi, SpecOps, SpecTrain (FairSpecTrain adds the    *)
(* fairness of a synchronously running script).                           *)
(* A Python str is a TLA+ string, a dict a record, an int an integer.     *)
(***************************************************************************)
EXTENDS Integers, Sequences, FiniteSets, TLC

VARIABLES
    app,            \* api.py: the routes registered on the FastAPI object
    requests,       \* api.py: the requests in flight, one per worker slot
    PI,             \* basic_operations.py: the module-level variable
    module_names,   \* basic_operations.py: the names bound in the module
    last,           \* basic_operations.py: the latest call and its result
    ncalls,         \* basic_operations.py: how many calls the host has made
    argv,           \* train_iris_model.py: the command line of the run
    environ,        \* train_iris_model.py: the environment of the run
    pc,             \* train_iris_model.py: the statement about to run
    iris,           \* train_iris_model.py: the module variable iris
    model,          \* train_iris_model.py: the module variable model
    fs,             \* train_iris_model.py: the files of the working directory
    fh,             \* train_iris_model.py: the handle dump holds on its file
    opens,          \* train_iris_model.py: how many times a file was opened
    closes,         \* train_iris_model.py: how many times a file was closed
    trace,          \* train_iris_model.py: the steps that have completed
    exc             \* train_iris_model.py: the uncaught exception, if any

apiVars == <<app, requests>>
opsVars == <<PI, module_names, last, ncalls>>
trainVars == <<argv, environ, pc, iris, model, fs, fh, opens, closes, trace, exc>>
vars == <<app, requests, PI, module_names, last, ncalls,
          argv, environ, pc, iris, model, fs, fh, opens, closes, trace, exc>>

(***************************************************************************)
(* Bounds                                                                  *)
(***************************************************************************)
\* worker slots serving requests concurrently
MaxReq == 2
\* the integer arguments are -MaxAbs .. MaxAbs, and 100
MaxAbs == 5
\* calls the host makes to basic_operations
MaxCalls == 3

\* The name strings given to get_greeting: plain, padded with blanks, upper
\* case, with characters an escaper would rewrite, and empty.
Names == {"Alice", "Bob", " bob ", "ALICE", "a<b>&\"c\"", ""}
\* The name strings given to read_item: a path segment is never empty.
PathNames == Names \ {""}

Slots == 1 .. MaxReq

(***************************************************************************)
(* Python's formatted string literals.  f"..{v}.." formats v with an empty *)
(* format spec and joins the pieces; for a str, format(v, "") is str(v),   *)
(* which is v.                                                             *)
(***************************************************************************)
FormatValue(v) == v

RECURSIVE JoinedStr(_)
JoinedStr(parts) ==
    IF parts = <<>> THEN "" ELSE Head(parts) \o JoinedStr(Tail(parts))

(***************************************************************************)
(* api.py                                                                  *)
(***************************************************************************)
\* read_root with the text cut short
read_root_short == [message |-> "Hello, World!"]

\* def read_root(): return {"message": "Hello, World! from Python.NET with FastAPI."}
read_root == [message |-> "Hello, World! from Python.NET with FastAPI."]

\* str.strip(): the blanks at both ends removed
RECURSIVE strip(_)
strip(s) ==
    IF s = "" THEN s
    ELSE IF SubSeq(s, 1, 1) = " " THEN strip(SubSeq(s, 2, Len(s)))
    ELSE IF SubSeq(s, Len(s), Len(s)) = " " THEN strip(SubSeq(s, 1, Len(s) - 1))
    ELSE s

\* read_item cleaning its parameter up before use
read_item_stripped(name) ==
    [message |-> JoinedStr(<<"Hello, ", FormatValue(strip(name)),
                             "! from Python.NET with FastAPI.">>)]

\* def read_item(name: str): return {"message": f"Hello, {name}! from Python.NET with FastAPI."}
read_item(name) ==
    [message |-> JoinedStr(<<"Hello, ", FormatValue(name),
                             "! from Python.NET with FastAPI.">>)]

\* app = FastAPI(); @app.get("/"); @app.get("/hello/{name}")
Routes == {[path |-> "/", endpoint |-> "read_root"],
           [path |-> "/hello/{name}", endpoint |-> "read_item"]}

NoResponse == [none |-> "none"]
IdleRequest == [endpoint |-> "none", name |-> "", pc |-> "idle",
                outcome |-> "none", resp |-> NoResponse]

ApiInit ==
    /\ app = Routes
    /\ requests = [i \in Slots |-> IdleRequest]

\* A GET / arrives on slot i and is routed to read_root.
ReceiveRoot(i) ==
    /\ requests[i].pc = "idle"
    /\ \E r \in app : r.endpoint = "read_root"
    /\ requests' = [requests EXCEPT ![i] =
            [endpoint |-> "read_root", name |-> "", pc |-> "routed",
             outcome |-> "none", resp |-> NoResponse]]
    /\ UNCHANGED <<app, opsVars, trainVars>>

\* A GET /hello/{name} arrives on slot i and is routed to read_item with
\* the path segment bound to name.
ReceiveItem(i, name) ==
    /\ requests[i].pc = "idle"
    /\ \E r \in app : r.endpoint = "read_item"
    /\ requests' = [requests EXCEPT ![i] =
            [endpoint |-> "read_item", name |-> name, pc |-> "routed",
             outcome |-> "none", resp |-> NoResponse]]
    /\ UNCHANGED <<app, opsVars, trainVars>>

\* The handler of slot i runs read_root and returns.
ReadRoot(i) ==
    /\ requests[i].pc = "routed"
    /\ requests[i].endpoint = "read_root"
    /\ requests' = [requests EXCEPT ![i].pc = "done",
                                    ![i].outcome = "returned",
                                    ![i].resp = read_root]
    /\ UNCHANGED <<app, opsVars, trainVars>>

\* read_item taking the name from a variable the requests share, which any
\* request in flight may have set last
ReadItemShared(i) ==
    /\ requests[i].pc = "routed"
    /\ requests[i].endpoint = "read_item"
    /\ \E j \in Slots :
        /\ requests[j].endpoint = "read_item"
        /\ requests' = [requests EXCEPT ![i].pc = "done",
                                        ![i].outcome = "returned",
                                        ![i].resp = read_item(requests[j].name)]
    /\ UNCHANGED <<app, opsVars, trainVars>>

\* The handler of slot i runs read_item on its own path parameter and returns.
ReadItem(i) ==
    /\ requests[i].pc = "routed"
    /\ requests[i].endpoint = "read_item"
    /\ requests' = [requests EXCEPT ![i].pc = "done",
                                    ![i].outcome = "returned",
                                    ![i].resp = read_item(requests[i].name)]
    /\ UNCHANGED <<app, opsVars, trainVars>>

\* The response of slot i is sent and the slot is free again.
Respond(i) ==
    /\ requests[i].pc = "done"
    /\ requests' = [requests EXCEPT ![i] = IdleRequest]
    /\ UNCHANGED <<app, opsVars, trainVars>>

NextApi ==
    \/ \E i \in Slots : ReceiveRoot(i)
    \/ \E i \in Slots, name \in PathNames : ReceiveItem(i, name)
    \/ \E i \in Slots : ReadRoot(i)
    \/ \E i \in Slots : ReadItem(i)
    \/ \E i \in Slots : Respond(i)

(***************************************************************************)
(* basic_operations.py                                                     *)
(***************************************************************************)
\* PI = 3.14159, the float written as mantissa * 10^exponent
PI_literal == [mantissa |-> 314159, exponent |-> -5]

\* The names the module binds: PI and the three defs.
ModuleNames == {"PI", "add_numbers", "multiply_numbers", "get_greeting"}

\* The integers the callers pass.
Nums == (-MaxAbs .. MaxAbs) \cup {100}

\* add_numbers with the wrong operator
add_numbers_sub(a, b) == a - b

\* def add_numbers(a, b): return a + b
add_numbers(a, b) == a + b

\* multiply_numbers with the wrong operator
multiply_numbers_add(a, b) == a + b

\* def multiply_numbers(a, b): return a * b
multiply_numbers(a, b) == a * b

\* get_greeting with the text of api.py's read_item
get_greeting_api(name) ==
    JoinedStr(<<"Hello, ", FormatValue(name),
                "! from Python.NET with FastAPI.">>)

\* def get_greeting(name): return f"Hello, {name}! Welcome to Python.NET integration."
get_greeting(name) ==
    JoinedStr(<<"Hello, ", FormatValue(name),
                "! Welcome to Python.NET integration.">>)

NoCall == [fn |-> "none", args |-> <<>>, result |-> 0]

OpsInit ==
    /\ PI = PI_literal
    /\ module_names = ModuleNames
    /\ last = NoCall
    /\ ncalls = 0

\* The host calls add_numbers(a, b).
AddNumbers ==
    \E a \in Nums, b \in Nums :
        /\ ncalls < MaxCalls
        /\ ncalls' = ncalls + 1
        /\ last' = [fn |-> "add_numbers", args |-> <<a, b>>,
                    result |-> add_numbers(a, b)]
        /\ UNCHANGED <<PI, module_names, apiVars, trainVars>>

\* multiply_numbers keeping its result in the module-level variable
MultiplyNumbersSetsPI ==
    \E a \in Nums, b \in Nums :
        /\ ncalls < MaxCalls
        /\ ncalls' = ncalls + 1
        /\ last' = [fn |-> "multiply_numbers", args |-> <<a, b>>,
                    result |-> multiply_numbers(a, b)]
        /\ PI' = [mantissa |-> multiply_numbers(a, b), exponent |-> 0]
        /\ UNCHANGED <<module_names, apiVars, trainVars>>

\* The host calls multiply_numbers(a, b).
MultiplyNumbers ==
    \E a \in Nums, b \in Nums :
        /\ ncalls < MaxCalls
        /\ ncalls' = ncalls + 1
        /\ last' = [fn |-> "multiply_numbers", args |-> <<a, b>>,
                    result |-> multiply_numbers(a, b)]
        /\ UNCHANGED <<PI, module_names, apiVars, trainVars>>

\* The host calls get_greeting(name).
GetGreeting ==
    \E name \in Names :
        /\ ncalls < MaxCalls
        /\ ncalls' = ncalls + 1
        /\ last' = [fn |-> "get_greeting", args |-> <<name>>,
                    result |-> get_greeting(name)]
        /\ UNCHANGED <<PI, module_names, apiVars, trainVars>>

NextOps ==
    \/ AddNumbers
    \/ MultiplyNumbers
    \/ GetGreeting

(***************************************************************************)
(* train_iris_model.py                                                     *)
(***************************************************************************)
\* The command lines and environments a run may be started with.
ArgvChoices == {<<>>, <<"out.pkl">>, <<"--output", "out.pkl">>}
EnvChoices == {[MODEL_PATH |-> ""], [MODEL_PATH |-> "env.pkl"]}
Paths == {"iris_nb.pkl", "out.pkl", "env.pkl"}

Absent == [exists |-> FALSE, data |-> <<>>]
Unbound == [bound |-> FALSE]

\* load_iris(): the bundled dataset, its features and its labels
load_iris == [bound |-> TRUE, data |-> "iris.data", target |-> "iris.target"]

\* GaussianNB(): a new, unfitted estimator
GaussianNB == [bound |-> TRUE, cls |-> "GaussianNB", fitted |-> FALSE,
               X |-> "none", y |-> "none"]

\* est.fit(X, y) learns from X and y and returns est itself
fit(est, X, y) == [est EXCEPT !.fitted = TRUE, !.X = X, !.y = y]

\* What joblib writes for obj: a header, the object's state, an end mark.
Pickle(obj) ==
    <<"PROTO", obj.cls, IF obj.fitted THEN "fitted" ELSE "unfitted",
      obj.X, obj.y, "STOP">>

\* the output path taken from the command line when one is given
dump_filename_argv == IF argv = <<>> THEN "iris_nb.pkl" ELSE argv[Len(argv)]

\* dump(model, "iris_nb.pkl"): the second argument
dump_filename == "iris_nb.pkl"

\* The files a run may find at the output path: none, another program's,
\* or the model an earlier run left.
EarlierFiles ==
    {Absent,
     [exists |-> TRUE, data |-> <<"stale">>],
     [exists |-> TRUE,
      data |-> Pickle(fit(GaussianNB, load_iris.data, load_iris.target))]}

TrainInit ==
    /\ argv \in ArgvChoices
    /\ environ \in EnvChoices
    /\ pc = "import"
    /\ iris = Unbound
    /\ model = Unbound
    /\ \E f \in EarlierFiles :
           fs = [p \in Paths |-> IF p = "iris_nb.pkl" THEN f ELSE Absent]
    /\ fh = "none"
    /\ opens = 0
    /\ closes = 0
    /\ trace = <<>>
    /\ exc = "none"

\* The script is not run: the state the other two specifications hold fixed.
TrainNotRun ==
    /\ TrainInit
    /\ argv = <<>>
    /\ environ = [MODEL_PATH |-> ""]
    /\ fs = [p \in Paths |-> Absent]

\* An exception raised by `step` is caught and the step is tried again.
RaiseRetries(step) ==
    /\ pc' = pc
    /\ exc' = step

\* An exception raised by `step` is caught nowhere: the script ends.
Raise(step) ==
    /\ pc' = "error"
    /\ exc' = step

\* Lines 1-3: the three imports.
Import ==
    /\ pc = "import"
    /\ pc' = "load_iris"
    /\ trace' = Append(trace, "import")
    /\ UNCHANGED <<argv, environ, iris, model, fs, fh, opens, closes, exc, apiVars, opsVars>>

ImportFails ==
    /\ pc = "import"
    /\ Raise("import")
    /\ UNCHANGED <<argv, environ, iris, model, fs, fh, opens, closes, trace, apiVars, opsVars>>

\* Line 5: iris = load_iris()
LoadIris ==
    /\ pc = "load_iris"
    /\ iris' = load_iris
    /\ pc' = "fit"
    /\ trace' = Append(trace, "load_iris")
    /\ UNCHANGED <<argv, environ, model, fs, fh, opens, closes, exc, apiVars, opsVars>>

LoadIrisFails ==
    /\ pc = "load_iris"
    /\ Raise("load_iris")
    /\ UNCHANGED <<argv, environ, iris, model, fs, fh, opens, closes, trace, apiVars, opsVars>>

\* Line 6 without the call of fit: model = GaussianNB()
FitModelUnfitted ==
    /\ pc = "fit"
    /\ model' = GaussianNB
    /\ pc' = "dump"
    /\ trace' = Append(trace, "fit")
    /\ UNCHANGED <<argv, environ, iris, fs, fh, opens, closes, exc, apiVars, opsVars>>

\* Line 6: model = GaussianNB().fit(iris.data, iris.target)
FitModel ==
    /\ pc = "fit"
    /\ model' = fit(GaussianNB, iris.data, iris.target)
    /\ pc' = "dump"
    /\ trace' = Append(trace, "fit")
    /\ UNCHANGED <<argv, environ, iris, fs, fh, opens, closes, exc, apiVars, opsVars>>

FitModelFails ==
    /\ pc = "fit"
    /\ Raise("fit")
    /\ UNCHANGED <<argv, environ, iris, model, fs, fh, opens, closes, trace, apiVars, opsVars>>

\* Line 7, dump(model, "iris_nb.pkl"): the file is opened for writing,
\* which creates it or empties it.
DumpOpen ==
    /\ pc = "dump"
    /\ fs' = [fs EXCEPT ![dump_filename] = [exists |-> TRUE, data |-> <<>>]]
    /\ fh' = "open"
    /\ opens' = opens + 1
    /\ pc' = "dump_write"
    /\ trace' = Append(trace, "open")
    /\ UNCHANGED <<argv, environ, iris, model, closes, exc, apiVars, opsVars>>

\* The path cannot be written: open raises and no file is touched.
DumpOpenFails ==
    /\ pc = "dump"
    /\ Raise("dump")
    /\ UNCHANGED <<argv, environ, iris, model, fs, fh, opens, closes, trace, apiVars, opsVars>>

\* Line 7: the model is pickled into the open file.
DumpWrite ==
    /\ pc = "dump_write"
    /\ fs' = [fs EXCEPT ![dump_filename].data = Pickle(model)]
    /\ pc' = "dump_close"
    /\ trace' = Append(trace, "write")
    /\ UNCHANGED <<argv, environ, iris, model, fh, opens, closes, exc, apiVars, opsVars>>

\* The write raises part way: the file keeps what was written, the handle
\* is closed on the way out, and the exception goes on.
DumpWriteFails ==
    /\ pc = "dump_write"
    /\ \E k \in 0 .. (Len(Pickle(model)) - 1) :
           fs' = [fs EXCEPT ![dump_filename].data = SubSeq(Pickle(model), 1, k)]
    /\ fh' = "closed"
    /\ closes' = closes + 1
    /\ Raise("dump")
    /\ UNCHANGED <<argv, environ, iris, model, opens, trace, apiVars, opsVars>>

\* Line 7: the file is closed and dump returns; the script ends.
DumpClose ==
    /\ pc = "dump_close"
    /\ fh' = "closed"
    /\ closes' = closes + 1
    /\ pc' = "done"
    /\ trace' = Append(trace, "close")
    /\ UNCHANGED <<argv, environ, iris, model, fs, opens, exc, apiVars, opsVars>>

NextTrain ==
    \/ Import
    \/ ImportFails
    \/ LoadIris
    \/ LoadIrisFails
    \/ FitModel
    \/ FitModelFails
    \/ DumpOpen
    \/ DumpOpenFails
    \/ DumpWrite
    \/ DumpWriteFails
    \/ DumpClose

(***************************************************************************)
(* The specifications: one per script; the other two scripts stand still.  *)
(***************************************************************************)
\* api.py is served; nothing else runs.
InitApi == ApiInit /\ OpsInit /\ TrainNotRun
SpecApi == InitApi /\ [][NextApi]_vars

\* basic_operations.py is imported and called; nothing else runs.
InitOps == ApiInit /\ OpsInit /\ TrainNotRun
SpecOps == InitOps /\ [][NextOps]_vars

\* train_iris_model.py is run once; nothing else runs.
InitTrain == ApiInit /\ OpsInit /\ TrainInit
SpecTrain == InitTrain /\ [][NextTrain]_vars

\* The script runs synchronously from its first line to its last: while a
\* statement remains, it is executed.
FairSpecTrain == SpecTrain /\ WF_vars(NextTrain)

(***************************************************************************)
(* Properties of api.py, checked under SpecApi                             *)
(***************************************************************************)
Done(i, endpoint) ==
    requests[i].pc = "done" /\ requests[i].endpoint = endpoint

\* C1: every GET / that has been handled returned exactly the object
\* {"message": "Hello, World! from Python.NET with FastAPI."}: one key,
\* "message", with that text, whatever other requests are or were served.
C1_ReadRootFixed ==
    \A i \in Slots :
        Done(i, "read_root") =>
            /\ requests[i].outcome = "returned"
            /\ DOMAIN requests[i].resp = {"message"}
            /\ requests[i].resp.message
                   = "Hello, World! from Python.NET with FastAPI."

\* A GET / has been handled while a GET /hello/Bob was handled too.
C1_Witness ==
    \E i \in Slots, j \in Slots :
        /\ Done(i, "read_root")
        /\ Done(j, "read_item")
        /\ requests[j].name = "Bob"

\* C2: every GET /hello/{name} that has been handled returned exactly
\* {"message": "Hello, " + name + "! from Python.NET with FastAPI."}: the
\* text before the name, the name character for character, the text after
\* it, and nothing else; and a routed request can always be handled, the
\* handler refusing no name.
C2_ReadItemVerbatim ==
    \A i \in Slots :
        /\ Done(i, "read_item") =>
            LET n == requests[i].name
                m == requests[i].resp.message
            IN  /\ requests[i].outcome = "returned"
                /\ DOMAIN requests[i].resp = {"message"}
                /\ Len(m) = 7 + Len(n) + 31
                /\ SubSeq(m, 1, 7) = "Hello, "
                /\ SubSeq(m, 8, 7 + Len(n)) = n
                /\ SubSeq(m, 8 + Len(n), Len(m))
                       = "! from Python.NET with FastAPI."
                /\ (n = "Alice"
                       => m = "Hello, Alice! from Python.NET with FastAPI.")
        /\ (requests[i].pc = "routed" /\ requests[i].endpoint = "read_item")
               => ENABLED ReadItem(i)

\* GET /hello/Alice and a GET /hello/ of a name padded with blanks have both
\* been handled.
C2_Witness ==
    \E i \in Slots, j \in Slots :
        /\ Done(i, "read_item") /\ requests[i].name = "Alice"
        /\ Done(j, "read_item") /\ requests[j].name = " bob "

\* The response a request gets when it is the only one ever served.
ServedAlone(endpoint, name) ==
    IF endpoint = "read_root"
    THEN [message |-> "Hello, World! from Python.NET with FastAPI."]
    ELSE [message |-> "Hello, " \o name \o "! from Python.NET with FastAPI."]

\* C9: under every interleaving of requests, a handled request carries the
\* response it would get served alone, which its own route and path
\* parameter fix; the routes of the application are never written; and a
\* step of one request leaves every other request as it was.
C9_Stateless ==
    /\ [](app = Routes)
    /\ [](\A i \in Slots :
            requests[i].pc = "done" =>
                requests[i].resp
                    = ServedAlone(requests[i].endpoint, requests[i].name))
    /\ [][\A i \in Slots, j \in Slots :
            (i # j /\ requests'[i] # requests[i])
                => requests'[j] = requests[j]]_vars

\* GET /hello/Alice has been handled while GET /hello/ALICE, which arrived
\* on the other slot, is still in flight.
C9_Witness ==
    \E i \in Slots, j \in Slots :
        /\ i # j
        /\ Done(i, "read_item") /\ requests[i].name = "Alice"
        /\ requests[j].pc = "routed" /\ requests[j].name = "ALICE"

(***************************************************************************)
(* Properties of basic_operations.py, checked under SpecOps                *)
(***************************************************************************)
Called(fn) == last.fn = fn

\* a added to itself n times, n >= 0
RECURSIVE RepeatedSum(_, _)
RepeatedSum(a, n) == IF n = 0 THEN 0 ELSE a + RepeatedSum(a, n - 1)

\* C3: add_numbers(a, b) returned the sum of a and b, for negative, zero and
\* positive a and b alike: taking b from the result leaves a, the order of
\* the arguments does not matter, add_numbers(2, 3) = 5 and
\* add_numbers(-1, 1) = 0.
C3_AddIsSum ==
    Called("add_numbers") =>
        LET a == last.args[1]
            b == last.args[2]
        IN  /\ last.result = a + b
            /\ last.result - b = a
            /\ last.result = add_numbers(b, a)
            /\ (a = 2 /\ b = 3 => last.result = 5)
            /\ (a = -1 /\ b = 1 => last.result = 0)

\* add_numbers(-1, 1) has been called.
C3_Witness ==
    Called("add_numbers") /\ last.args = <<-1, 1>>

\* C4: multiply_numbers(a, b) returned the product of a and b, for negative,
\* zero and positive a and b alike: it is a added up |b| times, with the
\* sign of b; multiply_numbers(4, 5) = 20 and multiply_numbers(0, b) = 0 for
\* every b, 100 among them.
C4_MultiplyIsProduct ==
    Called("multiply_numbers") =>
        LET a == last.args[1]
            b == last.args[2]
        IN  /\ last.result = a * b
            /\ last.result = IF b >= 0 THEN RepeatedSum(a, b)
                                       ELSE 0 - RepeatedSum(a, 0 - b)
            /\ (a = 4 /\ b = 5 => last.result = 20)
            /\ (a = 0 => last.result = 0)

\* multiply_numbers(0, 100) has been called.
C4_Witness ==
    Called("multiply_numbers") /\ last.args = <<0, 100>>

\* C5: get_greeting(name) returned exactly "Hello, " + name +
\* "! Welcome to Python.NET integration.": the text before the name, the
\* name character for character, the text after it; get_greeting("Bob") is
\* "Hello, Bob! Welcome to Python.NET integration.".
C5_GreetingVerbatim ==
    Called("get_greeting") =>
        LET n == last.args[1]
            r == last.result
        IN  /\ Len(r) = 7 + Len(n) + 36
            /\ SubSeq(r, 1, 7) = "Hello, "
            /\ SubSeq(r, 8, 7 + Len(n)) = n
            /\ SubSeq(r, 8 + Len(n), Len(r))
                   = "! Welcome to Python.NET integration."
            /\ (n = "Bob"
                   => r = "Hello, Bob! Welcome to Python.NET integration.")

\* get_greeting("Bob") has been called.
C5_Witness ==
    Called("get_greeting") /\ last.args = <<"Bob">>

\* C10: after any sequence of calls PI is still 3.14159 and the module binds
\* the same four names; and a call repeated with the same arguments returns
\* the same result, nothing a call leaves behind reaching the next one.
C10_Pure ==
    /\ [](PI = PI_literal /\ module_names = ModuleNames)
    /\ [][(last'.fn = last.fn /\ last'.args = last.args)
              => last'.result = last.result]_vars

\* Two calls or more have been made, multiply_numbers(4, 5) the latest.
C10_Witness ==
    /\ ncalls >= 2
    /\ Called("multiply_numbers")
    /\ last.args = <<4, 5>>

(***************************************************************************)
(* Properties of train_iris_model.py                                       *)
(***************************************************************************)
\* The steps of a run that fails nowhere, in the order of the script.
AllSteps == <<"import", "load_iris", "fit", "open", "write", "close">>

IsPrefix(s, t) == Len(s) <= Len(t) /\ s = SubSeq(t, 1, Len(s))

\* What dump writes for the classifier fitted on the loaded dataset.
FittedPickle == Pickle(fit(GaussianNB, load_iris.data, load_iris.target))

\* C6 (under FairSpecTrain): a run in which no step fails ends, and it ends
\* done; once done, "iris_nb.pkl" exists and is not empty, and no other path
\* has been written, whatever the command line and the environment hold.
C6_TerminatesWithFile ==
    /\ <>(exc # "none" \/ pc = "done")
    /\ [](pc = "done" =>
            /\ exc = "none"
            /\ fs["iris_nb.pkl"].exists
            /\ Len(fs["iris_nb.pkl"].data) > 0
            /\ \A p \in Paths \ {"iris_nb.pkl"} : fs[p] = Absent)

\* A run started with an output option on its command line and a path in
\* its environment, where no file existed, is done and has left the model.
C6_Witness ==
    /\ pc = "done"
    /\ argv = <<"--output", "out.pkl">>
    /\ environ.MODEL_PATH = "env.pkl"
    /\ fs["iris_nb.pkl"].data = FittedPickle
    /\ opens = 1

\* C7 (under SpecTrain): the steps completed so far are always a prefix of
\* import, load, fit, open, write, close, so none is repeated, skipped or
\* out of order; the file is opened only after fit has completed, on the
\* loaded features and labels; what has been written is the fitted
\* classifier or the start of it; the file is opened at most once and
\* closed at most once, and exactly once each when the run is done.
C7_FixedOrder ==
    /\ IsPrefix(trace, AllSteps)
    /\ (opens > 0 \/ fh # "none") =>
            /\ IsPrefix(<<"import", "load_iris", "fit">>, trace)
            /\ model.bound /\ model.fitted
            /\ iris = load_iris
            /\ model.X = iris.data /\ model.y = iris.target
            /\ IsPrefix(fs["iris_nb.pkl"].data, FittedPickle)
    /\ opens <= 1 /\ closes <= opens
    /\ (fh = "none") = (opens = 0)
    /\ (fh = "closed") = (closes = 1)
    /\ pc \in {"dump_close", "done"} => fs["iris_nb.pkl"].data = FittedPickle
    /\ pc = "done" => (trace = AllSteps /\ opens = 1 /\ closes = 1)

\* A run started without arguments is done, each step completed once.
C7_Witness ==
    /\ pc = "done"
    /\ trace = AllSteps
    /\ closes = 1
    /\ argv = <<>>

\* The steps that come before the output file is opened.
BeforeDump == {"import", "load_iris", "fit"}

\* C8 (under SpecTrain): a step that raises ends the run in the error state
\* at once, and there nothing changes any more: no later step runs and none
\* is tried again; the steps before the dump never touch a file, so a run
\* that failed in one of them has opened nothing, and the steps it had
\* completed are those before the one that failed.
C8_FailurePropagates ==
    /\ [](exc # "none" <=> pc = "error")
    /\ [][pc = "error" => UNCHANGED trainVars]_vars
    /\ [][(pc \in BeforeDump) => (fs' = fs /\ opens' = opens /\ fh' = fh)]_vars
    /\ [](exc \in BeforeDump =>
            /\ opens = 0 /\ closes = 0 /\ fh = "none"
            /\ fs["iris_nb.pkl"] \in EarlierFiles
            /\ IsPrefix(trace, AllSteps)
            /\ Len(trace) < 3
            /\ AllSteps[Len(trace) + 1] = exc)
    /\ [](exc = "dump" => (closes = opens /\ IsPrefix(trace, AllSteps)
                              /\ trace # AllSteps))

\* fit has raised: the run is in the error state and the file another
\* program had left is as it was.
C8_Witness ==
    /\ pc = "error"
    /\ exc = "fit"
    /\ trace = <<"import", "load_iris">>
    /\ fs["iris_nb.pkl"].data = <<"stale">>

====
